---- MODULE Spec2Model ----
(***************************************************************************)
(* Model of main.py (the Jarvis voice assistant): the text chunker and     *)
(* speech output (speak, speak_with_pygame), the song lookup               *)
(* (handle_play_command), the dispatcher (processCommand) and the          *)
(* wake-word / command loop (main_loop).                                   *)
(*                                                                         *)
(* Strings are sequences.  A command, a recognised phrase and a catalog    *)
(* key are sequences of single characters.  A literal message of the       *)
(* program keeps each of its words as one element: a word holds no period  *)
(* and no whitespace, the only characters speak looks at, while every      *)
(* period and every blank of the literal is an element of its own.         *)
(***************************************************************************)
EXTENDS Integers, Sequences, FiniteSets

\* ---------------------------------------------------------------- bounds
\* Longest reply of the AI service, in characters.
MaxAnswerLen == 3
\* Most articles in one response of the news service.
MaxArticles == 2

\* --------------------------------------------------------------- strings
UPPER == <<"A", "B", "C", "D", "E", "F", "G", "H", "I", "J", "K", "L", "M",
           "N", "O", "P", "Q", "R", "S", "T", "U", "V", "W", "X", "Y", "Z">>
LOWER == <<"a", "b", "c", "d", "e", "f", "g", "h", "i", "j", "k", "l", "m",
           "n", "o", "p", "q", "r", "s", "t", "u", "v", "w", "x", "y", "z">>

\* The characters str.strip() and str.split() treat as blank.
Whitespace == {" "}

LowerChar(ch) ==
    IF \E i \in 1..Len(UPPER) : UPPER[i] = ch
    THEN LOWER[CHOOSE i \in 1..Len(UPPER) : UPPER[i] = ch]
    ELSE ch

\* str.lower()
Lower(s) == [i \in 1..Len(s) |-> LowerChar(s[i])]

\* str.startswith(p)
StartsWith(s, p) == Len(p) <= Len(s) /\ SubSeq(s, 1, Len(p)) = p

\* p in s
Contains(s, p) ==
    \E i \in 0..(Len(s) - Len(p)) : SubSeq(s, i + 1, i + Len(p)) = p

\* str.strip()
RECURSIVE LStrip(_)
LStrip(s) ==
    IF s # <<>> /\ Head(s) \in Whitespace THEN LStrip(Tail(s)) ELSE s

RECURSIVE RStrip(_)
RStrip(s) ==
    IF s # <<>> /\ s[Len(s)] \in Whitespace
    THEN RStrip(SubSeq(s, 1, Len(s) - 1))
    ELSE s

Strip(s) == RStrip(LStrip(s))

\* str.split(sep) for a one-character sep: always at least one segment.
RECURSIVE SplitOn(_, _)
SplitOn(s, sep) ==
    IF \A i \in 1..Len(s) : s[i] # sep
    THEN <<s>>
    ELSE LET i == CHOOSE k \in 1..Len(s) :
                      s[k] = sep /\ \A j \in 1..(k - 1) : s[j] # sep
         IN  <<SubSeq(s, 1, i - 1)>> \o SplitOn(SubSeq(s, i + 1, Len(s)), sep)

\* str.split(): the words between runs of whitespace, none of them empty.
RECURSIVE SplitWs(_)
SplitWs(s) ==
    LET t == LStrip(s)
    IN  IF t = <<>>
        THEN <<>>
        ELSE LET n == IF \E k \in 1..Len(t) : t[k] \in Whitespace
                      THEN (CHOOSE k \in 1..Len(t) :
                                t[k] \in Whitespace
                                /\ \A j \in 1..(k - 1) : t[j] \notin Whitespace) - 1
                      ELSE Len(t)
             IN  <<SubSeq(t, 1, n)>> \o SplitWs(SubSeq(t, n + 1, Len(t)))

\* sep.join(parts)
RECURSIVE Join(_, _)
Join(parts, sep) ==
    IF parts = <<>> THEN <<>>
    ELSE IF Len(parts) = 1 THEN parts[1]
    ELSE parts[1] \o sep \o Join(Tail(parts), sep)

\* str.replace(old, new, 1): the first occurrence only.
ReplaceFirst(s, old, new) ==
    IF ~Contains(s, old)
    THEN s
    ELSE LET i == CHOOSE k \in 0..(Len(s) - Len(old)) :
                      /\ SubSeq(s, k + 1, k + Len(old)) = old
                      /\ \A j \in 0..(k - 1) : SubSeq(s, j + 1, j + Len(old)) # old
         IN  SubSeq(s, 1, i) \o new \o SubSeq(s, i + Len(old) + 1, Len(s))

\* str.replace(old, new) for a one-character old: every occurrence.
ReplaceChar(s, old, new) == [i \in 1..Len(s) |-> IF s[i] = old THEN new ELSE s[i]]

\* All sequences over S of length at most n.
SeqsUpTo(S, n) == UNION {[1..k -> S] : k \in 0..n}

\* ------------------------------------------------------ program literals
KW_OPEN_GOOGLE == <<"o", "p", "e", "n", " ", "g", "o", "o", "g", "l", "e">>
KW_OPEN_FACEBOOK == <<"o", "p", "e", "n", " ", "f", "a", "c", "e", "b", "o", "o", "k">>
KW_OPEN_YOUTUBE == <<"o", "p", "e", "n", " ", "y", "o", "u", "t", "u", "b", "e">>
KW_OPEN_LINKEDIN == <<"o", "p", "e", "n", " ", "l", "i", "n", "k", "e", "d", "i", "n">>
KW_PLAY == <<"p", "l", "a", "y">>
KW_NEWS == <<"n", "e", "w", "s">>
KW_JARVIS == <<"j", "a", "r", "v", "i", "s">>
KW_HTTP == <<"h", "t", "t", "p", ":", "/", "/">>
KW_HTTPS == <<"h", "t", "t", "p", "s", ":", "/", "/">>

URL_GOOGLE == <<"https://google", ".", "com">>
URL_FACEBOOK == <<"https://facebook", ".", "com">>
URL_YOUTUBE == <<"https://youtube", ".", "com">>
URL_LINKEDIN == <<"https://linkedin", ".", "com">>
URL_SEARCH == <<"https://www", ".", "youtube", ".", "com/results?search_query=">>

MsgInit == <<"Initializing", " ", "Jarvis", ".">>
MsgYes == <<"Yes?">>
MsgNoCommand == <<"Sorry,", " ", "I", " ", "didn't", " ", "catch", " ", "that", ".">>
MsgFarewell == <<"Shutting", " ", "down", ".", " ", "Goodbye", ".">>
MsgApology == <<"Sorry,", " ", "I", " ", "encountered", " ", "an", " ", "error", " ",
                "while", " ", "processing", " ", "the", " ", "command", ".">>
MsgOpeningGoogle == <<"Opening", " ", "Google", ".">>
MsgOpeningFacebook == <<"Opening", " ", "Facebook", ".">>
MsgOpeningYouTube == <<"Opening", " ", "YouTube", ".">>
MsgOpeningLinkedIn == <<"Opening", " ", "LinkedIn", ".">>
MsgFetching == <<"Fetching", " ", "the", " ", "top", " ", "headlines", ".">>
MsgLetMeCheck == <<"Let", " ", "me", " ", "check", ".">>
MsgWhichSong == <<"Which", " ", "song", " ", "should", " ", "I", " ", "play?">>
MsgPlayingFromUrl == <<"Playing", " ", "from", " ", "URL", ".">>
MsgAiNotConfigured == <<"AI", " ", "not", " ", "configured", ".", " ", "Please", " ", "set",
                        " ", "OPENAI_API_KEY", " ", "in", " ", "client", ".", "py", " ",
                        "and", " ", "install", " ", "openai", " ", "package", ".">>
MsgAiUnreachable == <<"Sorry,", " ", "I", " ", "couldn't", " ", "reach", " ", "the", " ",
                      "AI", " ", "service", ".">>
MsgNoNewsKey == <<"News", " ", "API", " ", "key", " ", "not", " ", "configured", ".", " ",
                  "Put", " ", "NEWS_API_KEY", " ", "in", " ", "client", ".", "py", ".">>
MsgNewsHttpError == <<"Failed", " ", "to", " ", "fetch", " ", "news:", " ", "HTTP", " ", "500">>
MsgNoArticles == <<"No", " ", "news", " ", "articles", " ", "found", ".">>
MsgErrorFetching == <<"Error", " ", "fetching", " ", "news", ".">>
MsgUntitled == <<"Untitled">>

\* f"Playing {name}."
MsgPlaying(name) == <<"Playing", " ">> \o name \o <<".">>

\* f"Couldn't find the exact song locally. Searching YouTube for {remainder}."
MsgCouldntFind(remainder) ==
    <<"Couldn't", " ", "find", " ", "the", " ", "exact", " ", "song", " ", "locally", ".",
      " ", "Searching", " ", "YouTube", " ", "for", " ">> \o remainder \o <<".">>

\* ---------------------------------------------------------------- inputs
\* What the recogniser may return for the command phrase.
Commands == {
    <<"o", "p", "e", "n", " ", "g", "o", "o", "g", "l", "e">>,
    <<"o", "p", "e", "n", " ", "y", "o", "u", "t", "u", "b", "e", " ", "p", "l", "e", "a", "s", "e">>,
    <<"o", "p", "e", "n", " ", "g", "o", "o", "g", "l", "e", " ",
      "o", "p", "e", "n", " ", "y", "o", "u", "t", "u", "b", "e">>,
    <<"O", "p", "e", "n", " ", "F", "a", "c", "e", "b", "o", "o", "k">>,
    <<"o", "p", "e", "n", " ", "l", "i", "n", "k", "e", "d", "i", "n", " ", "n", "o", "w">>,
    <<"p", "l", "a", "y", " ", "t", "h", "e", " ", "n", "e", "w", "s">>,
    <<"p", "l", "a", "y", " ", "d", "e", "s", "p", "a", "c", "i", "t", "o">>,
    <<"P", "l", "a", "y", " ", " ", "D", "e", "s", "p", "a", "c", "i", "t", "o">>,
    <<"p", "l", "a", "y", " ", "r", "e", "m", "i", "x">>,
    <<"p", "l", "a", "y", " ", "d", "e", "s", "p", "a", "c", "i", "t", "o", " ", " ",
      "r", "e", "m", "i", "x">>,
    <<"p", "l", "a", "y", " ", "a", " ", " ", "b">>,
    <<"p", "l", "a", "y", " ", "x", " ", "y">>,
    <<"p", "l", "a", "y">>,
    <<"p", "l", "a", "y", " ", "h", "t", "t", "p", ":", "/", "/", "a">>,
    <<"t", "e", "l", "l", " ", "m", "e", " ", "t", "h", "e", " ", "n", "e", "w", "s">>,
    <<"h", "i">>,
    <<"j", "a", "r", "v", "i", "s", " ", "p", "l", "a", "y", " ", "x", " ", "y">>,
    <<"J", "a", "r", "v", "i", "s">>,
    <<"j", "a", "r", "v", "i", "s", " ", "h", "i">>,
    <<" ">>,
    <<>> }

\* What the recogniser may return for the wake phrase.
WakePhrases == {
    <<"h", "e", "y", " ", "j", "a", "r", "v", "i", "s">>,
    <<"h", "e", "l", "l", "o", " ", "t", "h", "e", "r", "e">>,
    <<"J", "A", "R", "V", "I", "S">>,
    <<"H", "e", "y", " ", "J", "a", "r", "v", "i", "s", " ", "o", "n">> }

\* musicLibrary.music, in the dict's iteration order.
SampleMusic == <<
    [key |-> <<"d", "e", "s", "p", "a", "c", "i", "t", "o", " ", "r", "e", "m", "i", "x">>,
     url |-> <<"url2">>],
    [key |-> <<"d", "e", "s", "p", "a", "c", "i", "t", "o">>, url |-> <<"url1">>],
    [key |-> <<"h", "t", "t", "p", ":", "/", "/", "a">>, url |-> <<"url3">>] >>

\* musicLibrary: not importable, or imported with its music mapping.
Libraries == { [loaded |-> FALSE, music |-> <<>>], [loaded |-> TRUE, music |-> SampleMusic] }

\* A key value of client.py: "" stands for None or the empty string.
KeyValues == {"", "key"}

\* The characters of an AI reply, and the replies themselves.
AnswerAlphabet == {"a", " ", "."}
TextABC == <<"A", ".", " ", "B", ".", " ", "C", ".">>
TextNoPeriod == <<"NoPeriodHere">>
AiReplies ==
    {[raised |-> TRUE, content |-> <<>>]}
    \cup {[raised |-> FALSE, content |-> t] :
              t \in SeqsUpTo(AnswerAlphabet, MaxAnswerLen) \cup {TextABC, TextNoPeriod}}

\* An article is a dict with or without a "title": <<title>> or <<>>.
Articles == { <<>>, << <<>> >>, << <<"T1">> >>, << <<"T2", ".", " ", "more">> >> }
NewsResponses ==
    {[raised |-> TRUE, status |-> 0, articles |-> <<>>],
     [raised |-> FALSE, status |-> 500, articles |-> <<>>]}
    \cup {[raised |-> FALSE, status |-> 200, articles |-> a] :
              a \in SeqsUpTo(Articles, MaxArticles)}

\* Outcomes of a capture and recognition: the capture times out (or the
\* microphone fails), the recogniser raises UnknownValueError or RequestError,
\* or it returns a text.
ListenFailures == {"timeout", "unknown_value", "request_error"}
WakeOutcomes ==
    {[kind |-> k, text |-> <<>>] : k \in ListenFailures}
    \cup {[kind |-> "text", text |-> t] : t \in WakePhrases}
CommandOutcomes ==
    {[kind |-> k, text |-> <<>>] : k \in ListenFailures}
    \cup {[kind |-> "text", text |-> t] : t \in Commands}
NoOutcome == [kind |-> "none", text |-> <<>>]

\* ----------------------------------------------------------------- state
VARIABLES
    musicLibrary,    \* the imported catalog module (line 22-25)
    NEWS_API_KEY,    \* line 35
    OPENAI_API_KEY,  \* line 34 ("" also when the openai package is missing)
    pc,              \* the statement of main_loop being executed
    ops,             \* the calls still to make in that statement, in order
    cmd,             \* the argument of the running processCommand
    branch,          \* the branch processCommand took
    raised,          \* processCommand's except clause was entered
    heard,           \* the outcome of the wake stage of this iteration
    chunks,          \* speak: the chunks still to synthesise
    spc,             \* speak_with_pygame: the line being executed, or "idle"
    mixer,           \* pygame.mixer is initialised
    said,            \* arguments of the speak calls of this statement
    calls,           \* speak_with_pygame calls of the last speak call
    opened,          \* URLs given to webbrowser.open in this statement
    http             \* requests.get calls of this statement

vars == <<musicLibrary, NEWS_API_KEY, OPENAI_API_KEY, pc, ops, cmd, branch, raised,
          heard, chunks, spc, mixer, said, calls, opened, http>>

config == <<musicLibrary, NEWS_API_KEY, OPENAI_API_KEY>>

\* ------------------------------------------------------------ speak
NonEmpty(c) == c # <<>>

\* speak without the "if c.strip()" filter of line 75.
SpeakChunks_KeepEmpty(text) ==
    IF text = <<>>
    THEN <<>>
    ELSE LET parts == SplitOn(text, ".")
         IN  [i \in 1..Len(parts) |-> Strip(parts[i])]

\* speak, line 72-75: the chunks of a text, in order.
SpeakChunks(text) ==
    IF text = <<>>
    THEN <<>>
    ELSE LET parts == SplitOn(text, ".")
         IN  SelectSeq([i \in 1..Len(parts) |-> Strip(parts[i])], NonEmpty)

\* One speak_with_pygame(text) call: how the primary path ended ("running",
\* "ok", "failed"), the texts given to pytt_engine.say, and how the call
\* ended ("running" until it returns).
NewCall(text) ==
    [text |-> text, primary |-> "running", fallback |-> <<>>, result |-> "running"]

\* The primary path of the running call has ended.
Primary(how) == [calls EXCEPT ![Len(calls)].primary = how]

\* speak, line 76-77: the loop calls speak_with_pygame(chunk + ".") for the
\* next chunk, or ends.
NextChunk(done, rest) ==
    IF rest = <<>>
    THEN /\ calls' = done
         /\ chunks' = <<>>
         /\ spc' = "idle"
    ELSE /\ calls' = Append(done, NewCall(Head(rest) \o <<".">>))
         /\ chunks' = Tail(rest)
         /\ spc' = "gtts"

\* speak_with_pygame returns with the given result.
Return(cs, result) ==
    NextChunk([cs EXCEPT ![Len(cs)].result = result], chunks)

\* speak_with_pygame without the inner try of line 64: the failure of the
\* fallback leaves speak, and the later chunks are never attempted.
FallbackFailed_Abort(cs) ==
    NextChunk([cs EXCEPT ![Len(cs)].result = "dropped"], <<>>)

\* speak_with_pygame, line 67-68: the fallback failed too; the failure is
\* printed, the chunk is dropped and the call returns.
FallbackFailed(cs) == Return(cs, "dropped")

\* A line of the primary path: it succeeds and control moves on, or it
\* raises and control moves to the except clause of line 61.
PrimaryLine(at, next, mixerAfter) ==
    /\ spc = at
    /\ \/ /\ spc' = next
          /\ mixer' = mixerAfter
          /\ calls' = calls
       \/ /\ spc' = "say"
          /\ mixer' = mixer
          /\ calls' = Primary("failed")
    /\ UNCHANGED <<config, pc, ops, cmd, branch, raised, heard, chunks, said, opened, http>>

\* line 46: tts = gTTS(text=text, lang="en")
Synthesize == PrimaryLine("gtts", "save", mixer)
\* line 47: tts.save(TMP_TTS)
Save == PrimaryLine("save", "init", mixer)
\* line 49: pygame.mixer.init()
MixerInit == PrimaryLine("init", "load", TRUE)
\* line 50: pygame.mixer.music.load(TMP_TTS)
Load == PrimaryLine("load", "play", mixer)
\* line 51: pygame.mixer.music.play()
Play == PrimaryLine("play", "busy", mixer)
\* line 54-55: the poll until playback has finished
WaitPlayback == PrimaryLine("busy", "unload", mixer)
\* line 57: pygame.mixer.music.unload()
Unload == PrimaryLine("unload", "quit", mixer)

\* line 58: pygame.mixer.quit()
MixerQuit ==
    /\ spc = "quit"
    /\ spc' = "remove"
    /\ mixer' = FALSE
    /\ UNCHANGED <<config, pc, ops, cmd, branch, raised, heard, chunks, said, calls,
                   opened, http>>

\* line 59-60: the temporary file is removed and the call returns, or
\* os.remove raises.
RemoveTmp ==
    /\ spc = "remove"
    /\ \/ Return(Primary("ok"), "played")
       \/ /\ spc' = "say"
          /\ calls' = Primary("failed")
          /\ chunks' = chunks
    /\ UNCHANGED <<config, pc, ops, cmd, branch, raised, heard, mixer, said, opened, http>>

\* line 65: pytt_engine.say(text)
Say ==
    /\ spc = "say"
    /\ LET tried == [calls EXCEPT ![Len(calls)].fallback =
                         Append(@, calls[Len(calls)].text)]
       IN  \/ /\ calls' = tried
              /\ spc' = "run"
              /\ chunks' = chunks
           \/ FallbackFailed(tried)
    /\ UNCHANGED <<config, pc, ops, cmd, branch, raised, heard, mixer, said, opened, http>>

\* line 66: pytt_engine.runAndWait()
RunAndWait ==
    /\ spc = "run"
    /\ \/ Return(calls, "fallback")
       \/ FallbackFailed(calls)
    /\ UNCHANGED <<config, pc, ops, cmd, branch, raised, heard, mixer, said, opened, http>>

\* ------------------------------------------------------- the dispatcher
SpeakOp(text) == [op |-> "speak", arg |-> text]
OpenOp(url) == [op |-> "open", arg |-> url]
HeadlinesOp == [op |-> "headlines", arg |-> <<>>]
AiOp(command) == [op |-> "ai", arg |-> command]
SleepOp == [op |-> "sleep", arg |-> <<>>]

\* line 119-120
normalize_key(s) == Join(SplitWs(Strip(Lower(s))), <<" ">>)

\* line 127: command_text.lower().replace("play", "", 1).strip()
Remainder(command_text) == Strip(ReplaceFirst(Lower(command_text), KW_PLAY, <<>>))

\* The catalog's keys and the first entry, in iteration order, that passes.
Music == musicLibrary.music
HasKey(key) == \E i \in 1..Len(Music) : Music[i].key = key
Lookup(key) == Music[CHOOSE i \in 1..Len(Music) : Music[i].key = key].url
ContainsHit(key) == \E i \in 1..Len(Music) : Contains(Music[i].key, key)
FirstContains(key) ==
    Music[CHOOSE i \in 1..Len(Music) :
              /\ Contains(Music[i].key, key)
              /\ \A j \in 1..(i - 1) : ~Contains(Music[j].key, key)]
PrefixHit(key) == \E i \in 1..Len(Music) : StartsWith(Music[i].key, key)
FirstPrefix(key) ==
    Music[CHOOSE i \in 1..Len(Music) :
              /\ StartsWith(Music[i].key, key)
              /\ \A j \in 1..(i - 1) : ~StartsWith(Music[j].key, key)]

\* line 160-164: the search on YouTube.
SearchFallback(remainder) ==
    <<OpenOp(URL_SEARCH \o ReplaceChar(remainder, " ", "+")),
      SpeakOp(MsgCouldntFind(remainder))>>

\* The catalog tiers with the substring scan made before the direct match.
CatalogTiers_ContainsFirst(remainder) ==
    LET key == normalize_key(remainder)
    IN  IF ~musicLibrary.loaded THEN <<>>
        ELSE IF ContainsHit(key)
        THEN <<OpenOp(FirstContains(key).url), SpeakOp(MsgPlaying(FirstContains(key).key))>>
        ELSE IF HasKey(key)
        THEN <<OpenOp(Lookup(key)), SpeakOp(MsgPlaying(remainder))>>
        ELSE IF PrefixHit(key)
        THEN <<OpenOp(FirstPrefix(key).url), SpeakOp(MsgPlaying(FirstPrefix(key).key))>>
        ELSE <<>>

\* line 139-158: the catalog tiers; <<>> when none of them matches.
CatalogTiers(remainder) ==
    LET key == normalize_key(remainder)
    IN  IF ~musicLibrary.loaded THEN <<>>
        ELSE IF HasKey(key)
        THEN <<OpenOp(Lookup(key)), SpeakOp(MsgPlaying(remainder))>>
        ELSE IF ContainsHit(key)
        THEN <<OpenOp(FirstContains(key).url), SpeakOp(MsgPlaying(FirstContains(key).key))>>
        ELSE IF PrefixHit(key)
        THEN <<OpenOp(FirstPrefix(key).url), SpeakOp(MsgPlaying(FirstPrefix(key).key))>>
        ELSE <<>>

\* line 122-164: the calls handle_play_command makes, in order.
handle_play_command(command_text) ==
    LET remainder == Remainder(command_text)
    IN  IF remainder = <<>>
        THEN <<SpeakOp(MsgWhichSong)>>
        ELSE IF StartsWith(remainder, KW_HTTP) \/ StartsWith(remainder, KW_HTTPS)
        THEN <<OpenOp(remainder), SpeakOp(MsgPlayingFromUrl)>>
        ELSE IF CatalogTiers(remainder) # <<>>
        THEN CatalogTiers(remainder)
        ELSE SearchFallback(remainder)

\* processCommand with the tests in another order: "news" before "play" and
\* "open youtube" before "open google".
processCommand_Reordered(c) ==
    LET s == Strip(c)
        lower == Lower(s)
    IN  IF s = <<>>
        THEN [branch |-> "none", ops |-> <<>>]
        ELSE IF Contains(lower, KW_OPEN_YOUTUBE)
        THEN [branch |-> "youtube",
              ops |-> <<OpenOp(URL_YOUTUBE), SpeakOp(MsgOpeningYouTube)>>]
        ELSE IF Contains(lower, KW_OPEN_FACEBOOK)
        THEN [branch |-> "facebook",
              ops |-> <<OpenOp(URL_FACEBOOK), SpeakOp(MsgOpeningFacebook)>>]
        ELSE IF Contains(lower, KW_OPEN_GOOGLE)
        THEN [branch |-> "google",
              ops |-> <<OpenOp(URL_GOOGLE), SpeakOp(MsgOpeningGoogle)>>]
        ELSE IF Contains(lower, KW_OPEN_LINKEDIN)
        THEN [branch |-> "linkedin",
              ops |-> <<OpenOp(URL_LINKEDIN), SpeakOp(MsgOpeningLinkedIn)>>]
        ELSE IF Contains(lower, KW_NEWS)
        THEN [branch |-> "news", ops |-> <<SpeakOp(MsgFetching), HeadlinesOp>>]
        ELSE IF StartsWith(lower, KW_PLAY)
        THEN [branch |-> "play", ops |-> handle_play_command(s)]
        ELSE [branch |-> "ai", ops |-> <<SpeakOp(MsgLetMeCheck), AiOp(s)>>]

\* line 166-204: the branch processCommand takes and the calls the branch
\* makes, in order (up to its first call of a collaborator with an answer).
processCommand(c) ==
    LET s == Strip(c)
        lower == Lower(s)
    IN  IF s = <<>>
        THEN [branch |-> "none", ops |-> <<>>]
        ELSE IF Contains(lower, KW_OPEN_GOOGLE)
        THEN [branch |-> "google",
              ops |-> <<OpenOp(URL_GOOGLE), SpeakOp(MsgOpeningGoogle)>>]
        ELSE IF Contains(lower, KW_OPEN_FACEBOOK)
        THEN [branch |-> "facebook",
              ops |-> <<OpenOp(URL_FACEBOOK), SpeakOp(MsgOpeningFacebook)>>]
        ELSE IF Contains(lower, KW_OPEN_YOUTUBE)
        THEN [branch |-> "youtube",
              ops |-> <<OpenOp(URL_YOUTUBE), SpeakOp(MsgOpeningYouTube)>>]
        ELSE IF Contains(lower, KW_OPEN_LINKEDIN)
        THEN [branch |-> "linkedin",
              ops |-> <<OpenOp(URL_LINKEDIN), SpeakOp(MsgOpeningLinkedIn)>>]
        ELSE IF StartsWith(lower, KW_PLAY)
        THEN [branch |-> "play", ops |-> handle_play_command(s)]
        ELSE IF Contains(lower, KW_NEWS)
        THEN [branch |-> "news", ops |-> <<SpeakOp(MsgFetching), HeadlinesOp>>]
        ELSE [branch |-> "ai", ops |-> <<SpeakOp(MsgLetMeCheck), AiOp(s)>>]

\* An except clause that swallows the exception without the apology.
ProcessCommandExcept_Silent ==
    /\ raised' = TRUE
    /\ ops' = <<>>

\* line 206-209: the except clause of processCommand.
ProcessCommandExcept ==
    /\ raised' = TRUE
    /\ ops' = <<SpeakOp(MsgApology)>>

\* a.get("title", "Untitled")
Title(article) == IF article = <<>> THEN MsgUntitled ELSE article[1]

\* get_headlines without the key check of line 102-103.
get_headlines_NoKeyCheck(response) ==
    [requests |-> 1,
     headlines |->
         IF response.raised THEN <<MsgErrorFetching>>
         ELSE IF response.status # 200 THEN <<MsgNewsHttpError>>
         ELSE IF response.articles = <<>> THEN <<MsgNoArticles>>
         ELSE [i \in 1..Len(response.articles) |-> Title(response.articles[i])]]

\* line 100-117: the headlines, and the number of requests.get calls made.
get_headlines(response) ==
    IF NEWS_API_KEY = ""
    THEN [requests |-> 0, headlines |-> <<MsgNoNewsKey>>]
    ELSE [requests |-> 1,
          headlines |->
              IF response.raised THEN <<MsgErrorFetching>>
              ELSE IF response.status # 200 THEN <<MsgNewsHttpError>>
              ELSE IF response.articles = <<>> THEN <<MsgNoArticles>>
              ELSE [i \in 1..Len(response.articles) |-> Title(response.articles[i])]]

\* line 196-198: for h in headlines: speak(h); time.sleep(0.2)
RECURSIVE HeadlineOps(_)
HeadlineOps(headlines) ==
    IF headlines = <<>> THEN <<>>
    ELSE <<SpeakOp(Head(headlines)), SleepOp>> \o HeadlineOps(Tail(headlines))

\* line 79-98
aiProcess(reply) ==
    IF OPENAI_API_KEY = "" THEN MsgAiNotConfigured
    ELSE IF reply.raised THEN MsgAiUnreachable
    ELSE Strip(reply.content)

\* A call is made when speak_with_pygame is not running.
NextOp(kind) == spc = "idle" /\ ops # <<>> /\ Head(ops).op = kind

\* speak(text), line 70-77
Speak ==
    /\ NextOp("speak")
    /\ ops' = Tail(ops)
    /\ said' = Append(said, Head(ops).arg)
    /\ NextChunk(<<>>, SpeakChunks(Head(ops).arg))
    /\ UNCHANGED <<config, pc, cmd, branch, raised, heard, mixer, opened, http>>

\* webbrowser.open(url): the browser is launched, or the call raises and
\* processCommand's except clause takes over.
Open ==
    /\ NextOp("open")
    /\ \/ /\ opened' = Append(opened, Head(ops).arg)
          /\ ops' = Tail(ops)
          /\ raised' = raised
       \/ /\ ProcessCommandExcept
          /\ opened' = opened
    /\ UNCHANGED <<config, pc, cmd, branch, heard, chunks, spc, mixer, said, calls, http>>

\* headlines = get_headlines(), line 195
Headlines ==
    /\ NextOp("headlines")
    /\ \E response \in NewsResponses :
           LET got == get_headlines(response)
           IN  /\ http' = http + got.requests
               /\ ops' = HeadlineOps(got.headlines) \o Tail(ops)
    /\ UNCHANGED <<config, pc, cmd, branch, raised, heard, chunks, spc, mixer, said, calls,
                   opened>>

\* time.sleep(0.2), line 198
Sleep ==
    /\ NextOp("sleep")
    /\ ops' = Tail(ops)
    /\ UNCHANGED <<config, pc, cmd, branch, raised, heard, chunks, spc, mixer, said, calls,
                   opened, http>>

\* answer = aiProcess(c); speak(answer), line 203-204
Ai ==
    /\ NextOp("ai")
    /\ \E reply \in AiReplies :
           ops' = <<SpeakOp(aiProcess(reply))>> \o Tail(ops)
    /\ UNCHANGED <<config, pc, cmd, branch, raised, heard, chunks, spc, mixer, said, calls,
                   opened, http>>

\* ------------------------------------------------------------ main_loop
\* The statement at pc has made all its calls.
Finished == ops = <<>> /\ spc = "idle"

ClearLogs ==
    /\ said' = <<>>
    /\ calls' = <<>>
    /\ opened' = <<>>
    /\ http' = 0

\* listen_for_wakeword without the lower() calls of line 223.
listen_for_wakeword_CaseSensitive(outcome) ==
    outcome.kind = "text" /\ Contains(outcome.text, KW_JARVIS)

\* line 211-233: TRUE exactly when the phrase was recognised and holds the
\* wake word.
listen_for_wakeword(outcome) ==
    outcome.kind = "text" /\ Contains(Lower(outcome.text), Lower(KW_JARVIS))

\* line 235-252: the recognised text; <<>> stands for None as well.
listen_for_command(outcome) ==
    IF outcome.kind = "text" THEN outcome.text ELSE <<>>

\* line 279-281: a leading wake word is cut off.
CleanCommand(command) ==
    IF StartsWith(Lower(command), KW_JARVIS)
    THEN Strip(SubSeq(command, Len(KW_JARVIS) + 1, Len(command)))
    ELSE command

Init ==
    /\ musicLibrary \in Libraries
    /\ NEWS_API_KEY \in KeyValues
    /\ OPENAI_API_KEY \in KeyValues
    /\ pc = "init"
    /\ ops = <<SpeakOp(MsgInit)>>
    /\ cmd = <<>>
    /\ branch = "none"
    /\ raised = FALSE
    /\ heard = NoOutcome
    /\ chunks = <<>>
    /\ spc = "idle"
    /\ mixer = FALSE
    /\ said = <<>>
    /\ calls = <<>>
    /\ opened = <<>>
    /\ http = 0

\* line 258-262: the greeting is spoken and the loop is entered.
EnterLoop ==
    /\ pc = "init"
    /\ Finished
    /\ pc' = "wake"
    /\ ClearLogs
    /\ UNCHANGED <<config, ops, cmd, branch, raised, heard, chunks, spc, mixer>>

\* line 264-269: one wake-stage listen; "Yes?" is spoken when the wake word
\* was heard, and the loop continues otherwise.
ListenForWake ==
    /\ pc = "wake"
    /\ \E outcome \in WakeOutcomes :
           /\ heard' = outcome
           /\ IF listen_for_wakeword(outcome)
              THEN pc' = "ack" /\ ops' = <<SpeakOp(MsgYes)>>
              ELSE pc' = "wake" /\ ops' = <<>>
    /\ ClearLogs
    /\ UNCHANGED <<config, cmd, branch, raised, chunks, spc, mixer>>

\* line 271: "Yes?" is spoken and the command is listened for.
AwaitCommand ==
    /\ pc = "ack"
    /\ Finished
    /\ pc' = "command"
    /\ heard' = NoOutcome
    /\ ClearLogs
    /\ UNCHANGED <<config, ops, cmd, branch, raised, chunks, spc, mixer>>

\* line 271-283: the command is captured; nothing recognised is answered
\* with an apology, anything else goes to processCommand.
ListenForCommand ==
    /\ pc = "command"
    /\ \E outcome \in CommandOutcomes :
           LET command == listen_for_command(outcome)
           IN  IF command = <<>>
               THEN /\ pc' = "nocmd"
                    /\ ops' = <<SpeakOp(MsgNoCommand)>>
                    /\ UNCHANGED <<cmd, branch>>
               ELSE /\ pc' = "dispatch"
                    /\ cmd' = CleanCommand(command)
                    /\ branch' = processCommand(CleanCommand(command)).branch
                    /\ ops' = processCommand(CleanCommand(command)).ops
    /\ ClearLogs
    /\ UNCHANGED <<config, raised, heard, chunks, spc, mixer>>

\* line 274-275: the apology is spoken; continue.
NoCommand ==
    /\ pc = "nocmd"
    /\ Finished
    /\ pc' = "wake"
    /\ ClearLogs
    /\ UNCHANGED <<config, ops, cmd, branch, raised, heard, chunks, spc, mixer>>

\* line 283: processCommand has returned; the loop goes round.
Dispatched ==
    /\ pc = "dispatch"
    /\ Finished
    /\ pc' = "wake"
    /\ cmd' = <<>>
    /\ branch' = "none"
    /\ raised' = FALSE
    /\ ClearLogs
    /\ UNCHANGED <<config, ops, heard, chunks, spc, mixer>>

\* The statements inside the try of line 263.
InLoopBody == pc \in {"wake", "ack", "command", "nocmd", "dispatch"}

\* KeyboardInterrupt.  No except clause of speak_with_pygame, processCommand
\* or the listeners catches it (they catch Exception), so the running calls
\* are abandoned.  Raised inside the try of line 263 it reaches line 285 and
\* the farewell is spoken.  Raised in line 258-259 it leaves main_loop at
\* once; raised in the handler of line 286 it leaves through the finally of
\* line 294, which quits the mixer.
Interrupt ==
    /\ pc \in {"init", "farewell"} \/ InLoopBody
    /\ pc' = IF InLoopBody THEN "farewell" ELSE "uncaught"
    /\ ops' = IF InLoopBody THEN <<SpeakOp(MsgFarewell)>> ELSE <<>>
    /\ mixer' = IF pc = "farewell" THEN FALSE ELSE mixer
    /\ chunks' = <<>>
    /\ spc' = "idle"
    /\ cmd' = <<>>
    /\ branch' = "none"
    /\ raised' = FALSE
    /\ heard' = NoOutcome
    /\ ClearLogs
    /\ UNCHANGED config

\* line 286-298: the farewell is spoken, the loop is left and the finally
\* clause quits the mixer.
Shutdown ==
    /\ pc = "farewell"
    /\ Finished
    /\ pc' = "returned"
    /\ mixer' = FALSE
    /\ UNCHANGED <<config, ops, cmd, branch, raised, heard, chunks, spc, said, calls,
                   opened, http>>

\* The handler of line 288-292 has no action: every call of the loop body
\* catches Exception itself (speak_with_pygame at line 61 and 67, the
\* listeners at line 231 and 250, processCommand at line 206), so only
\* KeyboardInterrupt leaves the body.
Next ==
    \/ Speak \/ Synthesize \/ Save \/ MixerInit \/ Load \/ Play \/ WaitPlayback
    \/ Unload \/ MixerQuit \/ RemoveTmp \/ Say \/ RunAndWait
    \/ Open \/ Headlines \/ Sleep \/ Ai
    \/ EnterLoop \/ ListenForWake \/ AwaitCommand \/ ListenForCommand
    \/ NoCommand \/ Dispatched \/ Interrupt \/ Shutdown

Spec == Init /\ [][Next]_vars

\* ------------------------------------------------------------ properties
\* processCommand has run to its end.
Completed == pc = "dispatch" /\ Finished

\* The last speak call of this statement has returned.
SpeakReturned == spc = "idle" /\ said # <<>>

Last(seq) == seq[Len(seq)]
CallTexts == [i \in 1..Len(calls) |-> calls[i].text]
Count(seq, x) == Cardinality({i \in 1..Len(seq) : seq[i] = x})
IsPrefix(a, b) == Len(a) <= Len(b) /\ SubSeq(b, 1, Len(a)) = a

\* The dispatch predicates of section 4.1 of the specification, in order.
BranchNames == <<"google", "facebook", "youtube", "linkedin", "play", "news", "ai">>
Predicate(i, lower) ==
    CASE i = 1 -> Contains(lower, KW_OPEN_GOOGLE)
      [] i = 2 -> Contains(lower, KW_OPEN_FACEBOOK)
      [] i = 3 -> Contains(lower, KW_OPEN_YOUTUBE)
      [] i = 4 -> Contains(lower, KW_OPEN_LINKEDIN)
      [] i = 5 -> StartsWith(lower, KW_PLAY)
      [] i = 6 -> Contains(lower, KW_NEWS)
      [] OTHER -> TRUE
SiteUrl == <<URL_GOOGLE, URL_FACEBOOK, URL_YOUTUBE, URL_LINKEDIN>>
SiteMsg == <<MsgOpeningGoogle, MsgOpeningFacebook, MsgOpeningYouTube, MsgOpeningLinkedIn>>
OtherBranchMsgs == {MsgOpeningGoogle, MsgOpeningFacebook, MsgOpeningYouTube,
                    MsgOpeningLinkedIn, MsgFetching, MsgLetMeCheck}

\* What branch b may do, and what it has done when it ends without raising.
BranchEffects(b) ==
    /\ b <= 4 =>
         /\ \A i \in 1..Len(opened) : opened[i] = SiteUrl[b]
         /\ \A i \in 1..Len(said) : said[i] \in {SiteMsg[b], MsgApology}
         /\ Completed /\ ~raised => opened = <<SiteUrl[b]>> /\ said = <<SiteMsg[b]>>
    /\ b = 5 =>
         /\ \A i \in 1..Len(said) : said[i] \notin OtherBranchMsgs
         /\ Completed => said # <<>>
    /\ b = 6 =>
         /\ opened = <<>>
         /\ said # <<>> => said[1] = MsgFetching
         /\ Completed => said # <<>>
    /\ b = 7 =>
         /\ opened = <<>>
         /\ said # <<>> => said[1] = MsgLetMeCheck
         /\ Completed => Len(said) = 2

\* C1: for a non-empty command processCommand runs exactly one branch, the
\* branch of the first predicate, in the fixed order, that holds on the
\* lower-cased command; no URL is opened and no response spoken that belongs
\* to a later branch.
C1_FirstMatchWins ==
    (pc = "dispatch" /\ Strip(cmd) # <<>>) =>
        LET lower == Lower(Strip(cmd))
        IN  \E b \in 1..7 :
                /\ branch = BranchNames[b]
                /\ Predicate(b, lower)
                /\ \A j \in 1..(b - 1) : ~Predicate(j, lower)
                /\ BranchEffects(b)

CmdGoogleYoutube ==
    <<"o", "p", "e", "n", " ", "g", "o", "o", "g", "l", "e", " ",
      "o", "p", "e", "n", " ", "y", "o", "u", "t", "u", "b", "e">>
C1_Witness ==
    /\ Completed
    /\ cmd = CmdGoogleYoutube
    /\ opened = <<URL_GOOGLE>>
    /\ said = <<MsgOpeningGoogle>>

\* C2: an exception raised by a branch is caught in processCommand, which
\* speaks the apology exactly once and returns; main_loop goes on with the
\* next wake-word listen.
C2_BranchFailure ==
    /\ [](raised =>
            /\ pc = "dispatch"
            /\ Count(said, MsgApology) + Count(ops, SpeakOp(MsgApology)) = 1
            /\ Completed =>
                 /\ Last(said) = MsgApology
                 /\ Len(calls) = 1
                 /\ calls[1].text = MsgApology
                 /\ calls[1].result # "running")
    /\ [][(raised /\ pc' # pc) => (Completed /\ pc' = "wake") \/ pc' = "farewell"]_vars
    /\ [][(raised /\ ~raised') => pc' \in {"wake", "farewell"}]_vars

C2_Witness == Completed /\ raised /\ said = <<MsgApology>> /\ branch = "play"

\* C3: a KeyboardInterrupt at any point of main_loop ends it gracefully: the
\* farewell has been spoken when main_loop returns, and no exception leaves
\* main_loop.
C3_GracefulInterrupt ==
    /\ pc # "uncaught"
    /\ pc = "returned" => said = <<MsgFarewell>>

\* The segments of a text: a segment starts at the first character that is
\* neither a period nor blank after the start of the text or a period, and
\* ends at the last non-blank character before the next period.
SameRun(text, i, j) == \A k \in i..j : text[k] # "."
SegmentStarts(text) ==
    {i \in 1..Len(text) :
        /\ text[i] # "." /\ text[i] \notin Whitespace
        /\ \A j \in 1..(i - 1) : SameRun(text, j, i) => text[j] \in Whitespace}
SegmentEnd(text, i) ==
    CHOOSE e \in i..Len(text) :
        /\ SameRun(text, i, e) /\ text[e] \notin Whitespace
        /\ \A f \in (e + 1)..Len(text) : SameRun(text, i, f) => text[f] \in Whitespace
NthStart(text, n) ==
    CHOOSE i \in SegmentStarts(text) :
        Cardinality({j \in SegmentStarts(text) : j < i}) = n - 1
ExpectedCalls(text) ==
    [n \in 1..Cardinality(SegmentStarts(text)) |->
        SubSeq(text, NthStart(text, n), SegmentEnd(text, NthStart(text, n))) \o <<".">>]

\* C4: when the primary path fails for a chunk, the same text is given once
\* to the offline path; when that fails too the chunk is dropped and the
\* later chunks are still attempted, so speak returns having tried them all.
C4_Fallback ==
    /\ \A i \in 1..Len(calls) :
           /\ calls[i].primary = "failed" /\ calls[i].result # "running"
                  => calls[i].fallback = <<calls[i].text>>
                     /\ calls[i].result \in {"fallback", "dropped"}
           /\ calls[i].primary # "failed" => calls[i].fallback = <<>>
           /\ calls[i].result = "played" <=> calls[i].primary = "ok"
    /\ SpeakReturned =>
           /\ Len(calls) = Cardinality(SegmentStarts(Last(said)))
           /\ \A i \in 1..Len(calls) : calls[i].result # "running"

C4_Witness ==
    /\ SpeakReturned
    /\ Last(said) = MsgFarewell
    /\ Len(calls) = 2
    /\ calls[1].result = "dropped"
    /\ calls[2].result = "fallback"

\* C5: speak makes one synthesis call per non-empty trimmed segment of the
\* text split on the period, in order, each with the segment and one period,
\* and each call has returned before the next is made.
C5_Chunking ==
    /\ said # <<>> => IsPrefix(CallTexts, ExpectedCalls(Last(said)))
    /\ SpeakReturned =>
           /\ CallTexts = ExpectedCalls(Last(said))
           /\ Last(said) = TextABC => CallTexts = << <<"A", ".">>, <<"B", ".">>, <<"C", ".">> >>
           /\ Last(said) = <<>> => CallTexts = <<>>
           /\ Last(said) = TextNoPeriod => CallTexts = << <<"NoPeriodHere", ".">> >>
    /\ \A i \in 1..(Len(calls) - 1) : calls[i].result # "running"

C5_Witness ==
    /\ SpeakReturned
    /\ Last(said) = TextABC
    /\ CallTexts = << <<"A", ".">>, <<"B", ".">>, <<"C", ".">> >>

CmdTellNews ==
    <<"t", "e", "l", "l", " ", "m", "e", " ", "t", "h", "e", " ", "n", "e", "w", "s">>
NoNewsKeyChunks ==
    << <<"News", " ", "API", " ", "key", " ", "not", " ", "configured", ".">>,
       <<"Put", " ", "NEWS_API_KEY", " ", "in", " ", "client", ".">>,
       <<"py", ".">> >>

\* C6 as stated: in the news branch with no news key processCommand speaks
\* exactly the configuration-missing message, nothing else, and makes no
\* HTTP call.
C6_OnlyConfigMessage ==
    (Completed /\ branch = "news" /\ NEWS_API_KEY = "") =>
        said = <<MsgNoNewsKey>> /\ http = 0

\* C6 as amended: in the news branch with no news key processCommand speaks
\* "Fetching the top headlines." and then the configuration-missing message
\* (as its three chunks), nothing else, opens nothing and makes no HTTP call.
C6_AnnouncementThenConfigMessage ==
    (pc = "dispatch" /\ branch = "news" /\ NEWS_API_KEY = "") =>
        /\ http = 0
        /\ opened = <<>>
        /\ IsPrefix(said, <<MsgFetching, MsgNoNewsKey>>)
        /\ Completed => said = <<MsgFetching, MsgNoNewsKey>> /\ CallTexts = NoNewsKeyChunks

C6_Witness ==
    /\ Completed
    /\ cmd = CmdTellNews
    /\ NEWS_API_KEY = ""
    /\ said = <<MsgFetching, MsgNoNewsKey>>
    /\ http = 0

\* A play query that reaches the catalog tiers: not empty and not a URL.
IsUrl(q) == StartsWith(q, KW_HTTP) \/ StartsWith(q, KW_HTTPS)
Keys == {Music[i].key : i \in 1..Len(Music)}
UrlOf(key) == Music[CHOOSE i \in 1..Len(Music) : Music[i].key = key].url
Normalized(q) == Join(SplitWs(Lower(q)), <<" ">>)
NoLocalMatch(q) ==
    \/ ~musicLibrary.loaded
    \/ \A k \in Keys :
           /\ k # Normalized(q)
           /\ ~Contains(k, Normalized(q))
           /\ ~StartsWith(k, Normalized(q))

\* C7: a play query with no exact, substring or prefix match in the catalog
\* (or with no catalog) opens exactly one URL, the video-search URL with the
\* query's words joined by single "+" characters, and then speaks the
\* explanatory message.
C7_SearchWordsJoinedByPlus ==
    LET q == Remainder(cmd)
    IN  (Completed /\ branch = "play" /\ ~raised /\ q # <<>> /\ ~IsUrl(q) /\ NoLocalMatch(q)) =>
            /\ opened = <<URL_SEARCH \o Join(SplitWs(q), <<"+">>)>>
            /\ said = <<MsgCouldntFind(q)>>

\* C8 as stated: a play query whose normalised form is a key of the catalog
\* opens exactly the URL the catalog maps the key to, and no other.
C8_ExactMatchOpensMappedUrl ==
    LET q == Remainder(cmd)
    IN  (pc = "dispatch" /\ branch = "play" /\ musicLibrary.loaded /\ Normalized(q) \in Keys) =>
            /\ \A i \in 1..Len(opened) : opened[i] = UrlOf(Normalized(q))
            /\ Completed /\ ~raised => opened = <<UrlOf(Normalized(q))>>

\* C8 as amended: a play query that does not begin with http:// or https://
\* and whose normalised form is a key of the catalog opens exactly the URL
\* the catalog maps the key to, and no other, whatever other keys contain or
\* start with it; "Playing <query>." is then spoken.
C8_ExactMatchUnlessUrl ==
    LET q == Remainder(cmd)
    IN  (pc = "dispatch" /\ branch = "play" /\ musicLibrary.loaded /\ Normalized(q) \in Keys
         /\ ~IsUrl(q)) =>
            /\ \A i \in 1..Len(opened) : opened[i] = UrlOf(Normalized(q))
            /\ Completed /\ ~raised =>
                   opened = <<UrlOf(Normalized(q))>> /\ said = <<MsgPlaying(q)>>

CmdPlayDespacito ==
    <<"p", "l", "a", "y", " ", "d", "e", "s", "p", "a", "c", "i", "t", "o">>
C8_Witness ==
    /\ Completed
    /\ cmd = CmdPlayDespacito
    /\ opened = << <<"url1">> >>
    /\ \E i \in 1..Len(Music) : Music[i].key # Remainder(cmd) /\ Contains(Music[i].key, Remainder(cmd))

\* The wake word is in the wake-stage outcome, whatever its case.
HasWakeWord(outcome) ==
    outcome.kind = "text" /\ Contains(Lower(outcome.text), KW_JARVIS)

\* C9: an iteration becomes awake ("Yes?" is spoken and a command listened
\* for) exactly when the wake stage recognised a text that holds "jarvis" in
\* any case; otherwise it goes back to listening with nothing spoken, no
\* command captured and no dispatch.
C9_AwakeIffWakeWord ==
    /\ [](pc = "ack" => HasWakeWord(heard) /\ (Finished => said = <<MsgYes>>))
    /\ [][(pc = "wake" /\ pc' # "farewell") =>
             /\ HasWakeWord(heard') => pc' = "ack" /\ ops' = <<SpeakOp(MsgYes)>>
             /\ ~HasWakeWord(heard') =>
                    /\ pc' = "wake"
                    /\ ops' = <<>> /\ said' = <<>> /\ calls' = <<>> /\ spc' = "idle"
                    /\ cmd' = <<>> /\ branch' = "none"]_vars
    /\ [][(pc = "ack" /\ pc' # pc) => (Finished /\ pc' = "command") \/ pc' = "farewell"]_vars
    /\ [][pc' = "command" => pc \in {"ack", "command"}]_vars

C9_Witness ==
    /\ pc = "ack"
    /\ Finished
    /\ heard.text = <<"J", "A", "R", "V", "I", "S">>
    /\ said = <<MsgYes>>

\* C10: whenever speak_with_pygame has returned, on the success path and on
\* every failure path, the mixer it initialised is torn down again: it is
\* not initialised between chunks nor while the microphone is capturing.
C10_MixerTornDown ==
    /\ (calls # <<>> /\ calls[1].result # "running" /\ spc \in {"idle", "gtts", "save", "init"})
           => ~mixer
    /\ pc \in {"wake", "command"} => ~mixer

====
